---- MODULE Spec2Model ----
(***************************************************************************)
(* A model of salary_ics.py: the rule parser, the coverage-aware           *)
(* working-day predicate, the backward shift, the event generator and the  *)
(* fetch / generate loops of main.                                         *)
(*                                                                         *)
(* Text is a sequence of one-character strings, so that strip, split,      *)
(* isdigit, int, the UID sanitiser and the UID formatting are computed on  *)
(* characters.  A date is its proleptic Gregorian ordinal (date.toordinal) *)
(* and its year, month, day and weekday are computed from the ordinal.     *)
(***************************************************************************)
EXTENDS Integers, Sequences, FiniteSets, TLC

VARIABLES pc, args, rules, err, months_by_year, year, requested,
          covered_years, non_working, events, cal, d, prev

vars == <<pc, args, rules, err, months_by_year, year, requested,
          covered_years, non_working, events, cal, d, prev>>

(***************************************************************************)
(* Bounds of the model.                                                    *)
(***************************************************************************)
\* the longest rule string is MaxSegs segments joined by ';'
MaxSegs == 3
\* the shift runs draw their non-working set from ShiftWin consecutive days
ShiftWin == 7
\* the generator runs draw their non-working sets from GenWin consecutive days
GenWin == 3
\* main runs over start_year .. start_year + MaxSpan - 1 at most
MaxSpan == 2

None == "None"

(***************************************************************************)
(* Text.                                                                   *)
(***************************************************************************)
Digits == <<"0", "1", "2", "3", "4", "5", "6", "7", "8", "9">>
Lowers == <<"a", "b", "c", "d", "e", "f", "g", "h", "i", "j", "k", "l", "m",
            "n", "o", "p", "q", "r", "s", "t", "u", "v", "w", "x", "y", "z">>
Uppers == <<"A", "B", "C", "D", "E", "F", "G", "H", "I", "J", "K", "L", "M",
            "N", "O", "P", "Q", "R", "S", "T", "U", "V", "W", "X", "Y", "Z">>

Range(s) == {s[i] : i \in DOMAIN s}

\* str.isspace for the characters of the model
IsSpace(c) == c \in {" ", "\t", "\n"}

\* c.isdigit()
IsDigit(c) == c \in Range(Digits)

\* [a-zA-Z0-9]
IsAlnum(c) == c \in Range(Digits) \cup Range(Lowers) \cup Range(Uppers)

\* c.lower()
LowerChar(c) ==
    IF c \in Range(Uppers)
    THEN Lowers[CHOOSE i \in DOMAIN Uppers : Uppers[i] = c]
    ELSE c

Lower(s) == [i \in DOMAIN s |-> LowerChar(s[i])]

RECURSIVE LStrip(_)
LStrip(s) ==
    IF s # <<>> /\ IsSpace(Head(s)) THEN LStrip(Tail(s)) ELSE s

RECURSIVE RStrip(_)
RStrip(s) ==
    IF s # <<>> /\ IsSpace(s[Len(s)])
    THEN RStrip(SubSeq(s, 1, Len(s) - 1))
    ELSE s

\* s.strip()
Strip(s) == RStrip(LStrip(s))

\* index of the first occurrence of c in s, 0 when there is none
IndexOf(s, c) ==
    IF c \in Range(s)
    THEN CHOOSE i \in DOMAIN s : s[i] = c /\ \A j \in 1..(i - 1) : s[j] # c
    ELSE 0

\* s.split(c): the pieces between the occurrences of c, empty pieces kept
RECURSIVE Split(_, _)
Split(s, c) ==
    LET i == IndexOf(s, c)
    IN  IF i = 0
        THEN <<s>>
        ELSE <<SubSeq(s, 1, i - 1)>> \o Split(SubSeq(s, i + 1, Len(s)), c)

\* s.split(c, 1): the text before and after the first c
SplitFirst(s, c) ==
    LET i == IndexOf(s, c)
    IN  <<SubSeq(s, 1, i - 1), SubSeq(s, i + 1, Len(s))>>

\* s.isdigit(): non-empty and all digits
IsDigitStr(s) == s # <<>> /\ \A i \in DOMAIN s : IsDigit(s[i])

DigitValue(c) == (CHOOSE i \in DOMAIN Digits : Digits[i] = c) - 1

\* int(s) of a digit string
RECURSIVE ToInt(_)
ToInt(s) ==
    IF s = <<>>
    THEN 0
    ELSE 10 * ToInt(SubSeq(s, 1, Len(s) - 1)) + DigitValue(s[Len(s)])

\* f"{n}" of a natural number
RECURSIVE ToDecimal(_)
ToDecimal(n) ==
    IF n < 10
    THEN <<Digits[n + 1]>>
    ELSE ToDecimal(n \div 10) \o <<Digits[(n % 10) + 1]>>

\* f"{n:02d}"
Pad2(n) == IF n < 10 THEN <<"0">> \o ToDecimal(n) ELSE ToDecimal(n)

(***************************************************************************)
(* parse_rules.                                                            *)
(***************************************************************************)
Ok(v) == [raised |-> None, value |-> v]
Raise(e) == [raised |-> e, value |-> <<>>]

\* the body of the for loop over one part: the pair, or the error raised
ParsePart(part) ==
    LET sp    == SplitFirst(part, ":")
        day_s == Strip(sp[1])
        label == Strip(sp[2])
    IN  IF ":" \notin Range(part) THEN Raise("ValueError: Invalid rule")
        ELSE IF ~IsDigitStr(day_s) THEN Raise("ValueError: Invalid day")
        ELSE IF ToInt(day_s) < 1 \/ ToInt(day_s) > 31
             THEN Raise("ValueError: Day out of range")
        ELSE IF label = <<>> THEN Raise("ValueError: Empty label")
        ELSE Ok(<<ToInt(day_s), label>>)

\* [p.strip() for p in rules_str.split(";") if p.strip()]
Parts(rules_str) ==
    LET raw == Split(rules_str, ";")
        stripped == [i \in DOMAIN raw |-> Strip(raw[i])]
    IN  SelectSeq(stripped, LAMBDA p : p # <<>>)

\* list.sort(key=lambda x: x[0]) on one more element: after every element
\* whose key is not greater
RECURSIVE InsertByDay(_, _)
InsertByDay(sorted, r) ==
    IF sorted = <<>> THEN <<r>>
    ELSE IF Head(sorted)[1] <= r[1]
         THEN <<Head(sorted)>> \o InsertByDay(Tail(sorted), r)
         ELSE <<r>> \o sorted

\* a sort that puts an element before its equals: not stable
RECURSIVE InsertBeforeEquals(_, _)
InsertBeforeEquals(sorted, r) ==
    IF sorted = <<>> THEN <<r>>
    ELSE IF Head(sorted)[1] < r[1]
         THEN <<Head(sorted)>> \o InsertBeforeEquals(Tail(sorted), r)
         ELSE <<r>> \o sorted

RECURSIVE SortByDayFrom(_, _)
SortByDayFrom(sorted, rest) ==
    IF rest = <<>> THEN sorted
    ELSE SortByDayFrom(InsertByDay(sorted, Head(rest)), Tail(rest))

RECURSIVE UnstableSortFrom(_, _)
UnstableSortFrom(sorted, rest) ==
    IF rest = <<>> THEN sorted
    ELSE UnstableSortFrom(InsertBeforeEquals(sorted, Head(rest)), Tail(rest))

UnstableSortByDay(rs) == UnstableSortFrom(<<>>, rs)

\* rules.sort(key=lambda x: x[0]): ascending by day, stable
SortByDay(rs) == SortByDayFrom(<<>>, rs)

\* the for loop: the pairs in input order, or the first error raised
RECURSIVE ParseParts(_, _)
ParseParts(parts, acc) ==
    IF parts = <<>> THEN Ok(acc)
    ELSE LET r == ParsePart(Head(parts))
         IN  IF r.raised # None THEN r
             ELSE ParseParts(Tail(parts), Append(acc, r.value))

parse_rules(rules_str) ==
    LET s == Strip(rules_str)
    IN  IF s = <<>> THEN Raise("ValueError: rules string is empty")
        ELSE LET r == ParseParts(Parts(s), <<>>)
             IN  IF r.raised # None THEN r ELSE Ok(SortByDay(r.value))

(***************************************************************************)
(* datetime.date, as the ordinal of the day.                               *)
(***************************************************************************)
\* date.min.toordinal()
MinOrdinal == 1

IsLeap(y) == y % 4 = 0 /\ (y % 100 # 0 \/ y % 400 = 0)

DaysInMonth(y, m) ==
    IF m = 2 THEN (IF IsLeap(y) THEN 29 ELSE 28)
    ELSE IF m \in {4, 6, 9, 11} THEN 30 ELSE 31

RECURSIVE DaysBeforeMonth(_, _)
DaysBeforeMonth(y, m) ==
    IF m = 1 THEN 0 ELSE DaysBeforeMonth(y, m - 1) + DaysInMonth(y, m - 1)

DaysBeforeYear(y) ==
    LET p == y - 1
    IN  p * 365 + (p \div 4) - (p \div 100) + (p \div 400)

\* a check that lets every day up to 31 through
AnyDayExists(y, m, day) == day \in 1..31

\* date(y, m, day) raises ValueError unless the day exists
DateExists(y, m, day) ==
    /\ y \in 1..9999
    /\ m \in 1..12
    /\ day \in 1..DaysInMonth(y, m)

\* date(y, m, day), for a day that exists
MkDate(y, m, day) == DaysBeforeYear(y) + DaysBeforeMonth(y, m) + day

\* dt.year
YearOf(dt) ==
    LET n0   == dt - 1
        n400 == n0 \div 146097
        r400 == n0 % 146097
        n100 == r400 \div 36524
        r100 == r400 % 36524
        n4   == r100 \div 1461
        r4   == r100 % 1461
        n1   == r4 \div 365
        y    == n400 * 400 + n100 * 100 + n4 * 4 + n1 + 1
    IN  IF n1 = 4 \/ n100 = 4 THEN y - 1 ELSE y

\* dt.weekday(): Monday is 0
Weekday(dt) == (dt + 6) % 7

(***************************************************************************)
(* is_working_day and shift_to_previous_working_day.                       *)
(***************************************************************************)
\* a predicate that applies the weekday rule to covered years too
WeekdayAlways(dt, nw, cov) ==
    IF Weekday(dt) >= 5 THEN FALSE ELSE dt \notin nw

is_working_day(dt, nw, cov) ==
    IF YearOf(dt) \in cov
    THEN dt \notin nw
    ELSE IF Weekday(dt) >= 5 THEN FALSE ELSE dt \notin nw

\* a step forward instead of backward
StepForward(dt) == dt + 1

\* a step that does not move
StepNowhere(dt) == dt

\* d -= timedelta(days=1)
StepBack(dt) == dt - 1

\* the whole loop, for a start date from which it finds a working day
RECURSIVE shift_to_previous_working_day(_, _, _)
shift_to_previous_working_day(dt, nw, cov) ==
    IF is_working_day(dt, nw, cov)
    THEN dt
    ELSE shift_to_previous_working_day(StepBack(dt), nw, cov)

(***************************************************************************)
(* make_salary_event and generate_salary_events.                           *)
(***************************************************************************)
\* re.sub(r"[^a-zA-Z0-9]+", "-", s): every run of other characters is one '-'
RECURSIVE SubNonAlnum(_, _)
SubNonAlnum(s, inRun) ==
    IF s = <<>> THEN <<>>
    ELSE IF IsAlnum(Head(s)) THEN <<Head(s)>> \o SubNonAlnum(Tail(s), FALSE)
    ELSE IF inRun THEN SubNonAlnum(Tail(s), TRUE)
    ELSE <<"-">> \o SubNonAlnum(Tail(s), TRUE)

\* s.strip("-")
RECURSIVE StripDash(_)
StripDash(s) ==
    IF s # <<>> /\ Head(s) = "-" THEN StripDash(Tail(s))
    ELSE IF s # <<>> /\ s[Len(s)] = "-" THEN StripDash(SubSeq(s, 1, Len(s) - 1))
    ELSE s

\* re.sub(...).strip("-").lower() or "event"
Safe(summary) ==
    LET t == Lower(StripDash(SubNonAlnum(summary, FALSE)))
    IN  IF t = <<>> THEN <<"e", "v", "e", "n", "t">> ELSE t

UidPrefix == <<"r", "u", "-", "s", "a", "l", "a", "r", "y", "-">>
UidSuffix == <<"@", "s", "a", "l", "a", "r", "y", "-", "i", "c", "s">>

\* a UID built from the shifted date instead of the intended one
UidOfActual(base_year, base_month, base_day, actual_day, summary) ==
    UidPrefix \o ToDecimal(actual_day) \o <<"-">> \o Safe(summary) \o UidSuffix

\* f"ru-salary-{base_year}{base_month:02d}{base_day:02d}-{safe}@salary-ics"
Uid(base_year, base_month, base_day, actual_day, summary) ==
    UidPrefix \o ToDecimal(base_year) \o Pad2(base_month) \o Pad2(base_day)
        \o <<"-">> \o Safe(summary) \o UidSuffix

\* the event's properties, but for dtstamp (the wall clock at creation);
\* the description keeps the two dates it is formatted from
make_salary_event(base_year, base_month, base_day, actual_day, summary) ==
    LET base_date == MkDate(base_year, base_month, base_day)
    IN  [summary     |-> summary,
         dtstart     |-> actual_day,
         dtend       |-> actual_day + 1,
         uid         |-> Uid(base_year, base_month, base_day, actual_day, summary),
         description |-> IF actual_day # base_date
                         THEN <<base_date, actual_day>>
                         ELSE <<>>]

\* one pass of the inner loop body: the events list after (month, rule)
GenOne(evs, y, m, rule, nw, cov) ==
    IF ~DateExists(y, m, rule[1])
    THEN evs
    ELSE Append(evs, make_salary_event(y, m, rule[1],
             shift_to_previous_working_day(MkDate(y, m, rule[1]), nw, cov),
             rule[2]))

\* for day, label in rules, from rule i on
RECURSIVE GenRules(_, _, _, _, _, _, _)
GenRules(evs, y, m, rs, i, nw, cov) ==
    IF i > Len(rs) THEN evs
    ELSE GenRules(GenOne(evs, y, m, rs[i], nw, cov), y, m, rs, i + 1, nw, cov)

\* for month in range(1, 13), from month m on
RECURSIVE GenMonths(_, _, _, _, _, _)
GenMonths(evs, y, m, rs, nw, cov) ==
    IF m > 12 THEN evs
    ELSE GenMonths(GenRules(evs, y, m, rs, 1, nw, cov), y, m + 1, rs, nw, cov)

generate_salary_events(y, nw, cov, rs) == GenMonths(<<>>, y, 1, rs, nw, cov)

(***************************************************************************)
(* build_non_working_dates and build_calendar.                             *)
(***************************************************************************)
NonWorkingKinds == {"holiday", "dayoff"}

\* the dates of the entries whose kind is 'holiday' or 'dayoff'
build_non_working_dates(mby) ==
    { MkDate(t[1], t[2], t[3]) : t \in
        { t \in (DOMAIN mby) \X (1..12) \X (1..31) :
            /\ t[3] \in DOMAIN mby[t[1]][t[2]]
            /\ mby[t[1]][t[2]][t[3]] \in NonWorkingKinds } }

\* sorted(events, key=dtstart) on one more event: stable
RECURSIVE InsertByStart(_, _)
InsertByStart(sorted, e) ==
    IF sorted = <<>> THEN <<e>>
    ELSE IF Head(sorted).dtstart <= e.dtstart
         THEN <<Head(sorted)>> \o InsertByStart(Tail(sorted), e)
         ELSE <<e>> \o sorted

RECURSIVE SortByStartFrom(_, _)
SortByStartFrom(sorted, rest) ==
    IF rest = <<>> THEN sorted
    ELSE SortByStartFrom(InsertByStart(sorted, Head(rest)), Tail(rest))

\* the calendar's components, in the order add_component receives them
build_calendar(evs) == SortByStartFrom(<<>>, evs)

(***************************************************************************)
(* Inputs.                                                                 *)
(***************************************************************************)
\* the segments a rule string of the parser runs is joined from
Segments ==
    { <<>>,
      <<" ">>,
      <<"5", ":", "a">>,
      <<"2", ":", "B">>,
      <<" ", "5", " ", ":", " ", "a", ":", "b", " ">>,
      <<"5">>,
      <<"x", ":", "a">>,
      <<"3", "2", ":", "a">>,
      <<"0", ":", "a">>,
      <<"5", ":", " ">>,
      <<"0", "5", ":", "a">> }

RECURSIVE Join(_)
Join(segs) ==
    IF Len(segs) = 1 THEN segs[1]
    ELSE segs[1] \o <<";">> \o Join(Tail(segs))

RuleStrings ==
    { Join(f) : f \in UNION { [1..k -> Segments] : k \in 1..MaxSegs } }

\* --rules of the runs of main; the first is the default
MainRuleStrings ==
    { <<"5", ":", "S", "a", "l", "a", "r", "y", ";", "2", "0", ":", "M", "i", "d", "-", "m", "o", "n", "t", "h", " ", "p", "a", "y">>,
      <<";", ";">>,
      <<>>,
      <<"2", ":", "P", "a", "y", ";", "2", ":", "p", "a", "y", "!">>,
      <<"3", "1", ":", "x">> }

\* the rule strings of the generator runs
GenRuleStrings ==
    { <<"2", ":", "P", "a", "y">>,
      <<"4", ":", "a", ";", "2", "9", ":", "b">>,
      <<"3", "0", ":", "x", ";", "3", "1", ":", "y">> }

\* the years of the runs of main: --start-year, and --end-year from the year
\* before it (an empty range) on
StartYears == {2025}
EndYears(start_year) == (start_year - 1)..(start_year + MaxSpan - 1)

\* what parse_year can return for a year: None (404), or twelve month maps
\* of the days that are not plain working days
JanuaryMaps == { <<>>, (1 :> "holiday" @@ 2 :> "dayoff") }
DecemberMaps == { <<>>, (30 :> "shortened" @@ 31 :> "dayoff") }

YearCalendars ==
    { [m \in 1..12 |-> IF m = 1 THEN jan ELSE IF m = 12 THEN dec ELSE <<>>] :
        jan \in JanuaryMaps, dec \in DecemberMaps }

\* parse_year's return value: the twelve month maps, or None
ParseYearResults ==
    { [found |-> TRUE, months |-> c] : c \in YearCalendars }
        \cup { [found |-> FALSE, months |-> <<>>] }

\* the days the shift runs draw their non-working set and start date from:
\* Saturday 28 December 2024 on, or the first days of the date range
ShiftWindows ==
    { MkDate(2024, 12, 28)..(MkDate(2024, 12, 28) + ShiftWin - 1),
      MinOrdinal..(MinOrdinal + ShiftWin - 1) }

\* the days the generator runs draw their non-working sets from: 1 January
\* 2025 on
GenWindow == MkDate(2025, 1, 1)..(MkDate(2025, 1, 1) + GenWin - 1)
GenYears == {2024, 2025}

(***************************************************************************)
(* The rule parser alone: main's call of parse_rules on any rule string.   *)
(***************************************************************************)
Idle ==
    /\ err = None
    /\ months_by_year = <<>>
    /\ requested = <<>>
    /\ covered_years = {}
    /\ non_working = {}
    /\ events = <<>>
    /\ cal = <<>>
    /\ prev = <<>>
    /\ d = 0

\* rules = parse_rules(args.rules); parse_from = args.start_year - 1
ParseRules ==
    /\ pc = "start"
    /\ LET r == parse_rules(args.rules)
       IN  IF r.raised # None
           THEN /\ pc' = "aborted"
                /\ err' = r.raised
                /\ UNCHANGED <<rules, year>>
           ELSE /\ pc' = "fetch"
                /\ rules' = r.value
                /\ year' = args.start_year - 1
                /\ UNCHANGED err
    /\ UNCHANGED <<args, months_by_year, requested, covered_years,
                   non_working, events, cal, d, prev>>

InitParse ==
    /\ pc = "start"
    /\ args \in [start_year : StartYears, end_year : StartYears,
                 rules : RuleStrings]
    /\ rules = <<>>
    /\ year = 0
    /\ Idle

NextParse == ParseRules

SpecParse == InitParse /\ [][NextParse]_vars

(***************************************************************************)
(* The shift alone: the loop of shift_to_previous_working_day, one test of *)
(* the loop condition per step.                                            *)
(***************************************************************************)
InitShift ==
    /\ pc = "shift"
    /\ \E w \in ShiftWindows :
         /\ d \in w
         /\ non_working \in SUBSET w
         /\ covered_years \in SUBSET { YearOf(x) : x \in w }
    /\ args = [d |-> d]
    /\ rules = <<>>
    /\ year = 0
    /\ err = None
    /\ months_by_year = <<>>
    /\ requested = <<>>
    /\ events = <<>>
    /\ cal = <<>>
    /\ prev = <<>>

\* the loop condition holds and the body runs: d -= timedelta(days=1)
ShiftStep ==
    /\ pc = "shift"
    /\ ~is_working_day(d, non_working, covered_years)
    /\ StepBack(d) >= MinOrdinal
    /\ d' = StepBack(d)
    /\ UNCHANGED <<pc, args, rules, err, months_by_year, year, requested,
                   covered_years, non_working, events, cal, prev>>

\* the body runs on date.min: the subtraction raises OverflowError
ShiftOverflow ==
    /\ pc = "shift"
    /\ ~is_working_day(d, non_working, covered_years)
    /\ StepBack(d) < MinOrdinal
    /\ pc' = "aborted"
    /\ err' = "OverflowError"
    /\ UNCHANGED <<args, rules, months_by_year, year, requested,
                   covered_years, non_working, events, cal, d, prev>>

\* the loop condition fails: return d
ShiftReturn ==
    /\ pc = "shift"
    /\ is_working_day(d, non_working, covered_years)
    /\ pc' = "returned"
    /\ UNCHANGED <<args, rules, err, months_by_year, year, requested,
                   covered_years, non_working, events, cal, d, prev>>

NextShift == ShiftStep \/ ShiftOverflow \/ ShiftReturn

SpecShift == InitShift /\ [][NextShift]_vars /\ WF_vars(NextShift)

(***************************************************************************)
(* The generator alone: generate_salary_events for one year, then again    *)
(* for the same year and rules with another non-working set and coverage.  *)
(***************************************************************************)
InitGen ==
    /\ pc = "generate"
    /\ year \in GenYears
    /\ \E s \in GenRuleStrings :
         /\ args = [rules |-> s]
         /\ rules = parse_rules(s).value
    /\ non_working \in SUBSET GenWindow
    /\ covered_years \in SUBSET GenYears
    /\ err = None
    /\ months_by_year = <<>>
    /\ requested = <<>>
    /\ events = <<>>
    /\ cal = <<>>
    /\ prev = <<>>
    /\ d = 0

Generate ==
    /\ pc = "generate"
    /\ events' = generate_salary_events(year, non_working, covered_years, rules)
    /\ pc' = "generated"
    /\ UNCHANGED <<args, rules, err, months_by_year, year, requested,
                   covered_years, non_working, cal, d, prev>>

Regenerate ==
    /\ pc = "generated"
    /\ non_working' \in SUBSET GenWindow
    /\ covered_years' \in SUBSET GenYears
    /\ prev' = events
    /\ events' = generate_salary_events(year, non_working', covered_years', rules)
    /\ pc' = "regenerated"
    /\ UNCHANGED <<args, rules, err, months_by_year, year, requested, cal, d>>

NextGen == Generate \/ Regenerate

SpecGen == InitGen /\ [][NextGen]_vars

(***************************************************************************)
(* main: parse the rules, fetch start_year-1 .. end_year, build the        *)
(* coverage and non-working sets, generate the events year by year.        *)
(***************************************************************************)
\* a result that also counts as missing when no month has an entry
FalsyOrEmpty(res) ==
    ~res.found \/ \A m \in DOMAIN res.months : res.months[m] = <<>>

\* not months, of what parse_year returned: None, or an empty list
Falsy(res) == ~res.found \/ Len(res.months) = 0

\* the generation loop goes on over years without coverage
NeverStops(y, mby) == FALSE

\* if year not in months_by_year: break
GenerationStops(y, mby) == y \notin DOMAIN mby

Init ==
    /\ pc = "start"
    /\ \E sy \in StartYears :
         args \in [start_year : {sy}, end_year : EndYears(sy),
                   rules : MainRuleStrings]
    /\ rules = <<>>
    /\ year = 0
    /\ Idle

\* lines 277-281: the sets derived from months_by_year, and the first year
\* of the generation loop
AfterFetch(mby) ==
    /\ covered_years' = DOMAIN mby
    /\ non_working' = build_non_working_dates(mby)
    /\ year' = args.start_year
    /\ pc' = "generate"

\* parse_year returned the year's calendar: months_by_year[year] = months
FetchStore ==
    /\ pc = "fetch"
    /\ year <= args.end_year
    /\ \E res \in ParseYearResults :
         /\ res.found
         /\ ~Falsy(res)
         /\ months_by_year' = months_by_year @@ (year :> res.months)
    /\ requested' = Append(requested, [year |-> year, outcome |-> "data"])
    /\ year' = year + 1
    /\ UNCHANGED <<pc, args, rules, err, covered_years, non_working, events,
                   cal, d, prev>>

\* parse_year returned nothing usable: break
FetchBreak ==
    /\ pc = "fetch"
    /\ year <= args.end_year
    /\ \E res \in ParseYearResults :
         /\ Falsy(res)
         /\ requested' = Append(requested,
                [year |-> year,
                 outcome |-> IF res.found THEN "data" ELSE "unavailable"])
    /\ AfterFetch(months_by_year)
    /\ UNCHANGED <<args, rules, err, months_by_year, events, cal, d, prev>>

\* parse_year raised (an HTTP error, or not twelve months): the run aborts
FetchRaise ==
    /\ pc = "fetch"
    /\ year <= args.end_year
    /\ requested' = Append(requested, [year |-> year, outcome |-> "error"])
    /\ err' = "RuntimeError"
    /\ pc' = "aborted"
    /\ UNCHANGED <<args, rules, months_by_year, year, covered_years,
                   non_working, events, cal, d, prev>>

\* the range is exhausted
FetchExhausted ==
    /\ pc = "fetch"
    /\ year > args.end_year
    /\ AfterFetch(months_by_year)
    /\ UNCHANGED <<args, rules, err, months_by_year, requested, events, cal,
                   d, prev>>

\* events.extend(generate_salary_events(year, ...))
GenerateYear ==
    /\ pc = "generate"
    /\ year <= args.end_year
    /\ ~GenerationStops(year, months_by_year)
    /\ events' = events \o
           generate_salary_events(year, non_working, covered_years, rules)
    /\ year' = year + 1
    /\ UNCHANGED <<pc, args, rules, err, months_by_year, requested,
                   covered_years, non_working, cal, d, prev>>

\* the loop ends (exhausted, or break): build_calendar and write
Finish ==
    /\ pc = "generate"
    /\ year > args.end_year \/ GenerationStops(year, months_by_year)
    /\ cal' = build_calendar(events)
    /\ pc' = "done"
    /\ UNCHANGED <<args, rules, err, months_by_year, year, requested,
                   covered_years, non_working, events, d, prev>>

Next ==
    \/ ParseRules
    \/ FetchStore
    \/ FetchBreak
    \/ FetchRaise
    \/ FetchExhausted
    \/ GenerateYear
    \/ Finish

Spec == Init /\ [][Next]_vars

(***************************************************************************)
(* Properties of the rule parser (SpecParse).                              *)
(***************************************************************************)
\* the ';'-separated segments of the input that are not empty once stripped,
\* in input order
InputSegments ==
    SelectSeq(Split(args.rules, ";"), LAMBDA p : Strip(p) # <<>>)

\* the (day, label) pair of each such segment, for an accepted input
InputPairs ==
    [i \in DOMAIN InputSegments |-> ParsePart(Strip(InputSegments[i])).value]

PairsOfDay(rs, k) == SelectSeq(rs, LAMBDA r : r[1] = k)

\* C5: parse_rules raises the empty-rule-set error whenever the input has no
\* non-empty segment (empty, whitespace-only, or only separators), and it
\* never returns an empty rule list.
C5_EmptyInputRaises ==
    pc # "start" =>
        /\ InputSegments = <<>> => err = "ValueError: rules string is empty"
        /\ pc = "fetch" => rules # <<>>

\* C8: for an accepted input the returned list holds exactly one pair per
\* non-empty segment, is ascending by day, and pairs of equal day keep their
\* input order.
C8_SortedStableNoDedup ==
    pc = "fetch" =>
        /\ Len(rules) = Len(InputSegments)
        /\ \A i \in 1..(Len(rules) - 1) : rules[i][1] <= rules[i + 1][1]
        /\ \A k \in 1..31 : PairsOfDay(rules, k) = PairsOfDay(InputPairs, k)

\* an accepted input of three rules that the sort reorders, two of them of
\* the same day with different labels
C8_Witness ==
    /\ pc = "fetch"
    /\ Len(rules) = 3
    /\ rules # InputPairs
    /\ rules[2][1] = rules[3][1]
    /\ rules[2][2] # rules[3][2]

(***************************************************************************)
(* Properties of the working-day predicate and the shift (SpecShift).      *)
(***************************************************************************)
\* the calendar facts the properties are stated with, apart from the model's
\* conversions: a date lies in year y when it is between 1 January and 31
\* December of y; 30 December 2024 is a Monday
ClaimYears == {1} \cup (2020..2030)
InYear(dt, y) == MkDate(y, 1, 1) <= dt /\ dt <= MkDate(y, 12, 31)
IsMonToFri(dt) == (dt - MkDate(2024, 12, 30)) % 7 \in 0..4

\* C2: with the year covered, a date is a working day exactly when it is not
\* in the non-working set, whatever its weekday; with the year not covered,
\* exactly when it is Monday..Friday and not in the non-working set.
C2_WorkingDayRule ==
    \A y \in ClaimYears :
        InYear(d, y) =>
            is_working_day(d, non_working, covered_years) =
                IF y \in covered_years
                THEN d \notin non_working
                ELSE IsMonToFri(d) /\ d \notin non_working

\* a shift that started on a Saturday or Sunday of a covered year and
\* returned it at once: the predicate took it for a working day
C2_Witness ==
    /\ pc = "returned"
    /\ d = args.d
    /\ ~IsMonToFri(d)
    /\ \E y \in covered_years : InYear(d, y)
    /\ is_working_day(d, non_working, covered_years)

\* C1: the date the shift returns is on or before the start date, is a
\* working day, and every date after it up to the start date is not a
\* working day (so a working start date is returned unchanged).
C1_LatestWorkingDay ==
    pc = "returned" =>
        /\ d <= args.d
        /\ is_working_day(d, non_working, covered_years)
        /\ \A x \in (d + 1)..args.d :
               ~is_working_day(x, non_working, covered_years)
        /\ is_working_day(args.d, non_working, covered_years) => d = args.d

\* a shift that returned a day of the year before the start date's
C1_Witness ==
    /\ pc = "returned"
    /\ d < args.d
    /\ YearOf(d) < YearOf(args.d)

\* the date range reaches a week or more before the start date and before
\* every non-working date
FarEnoughBack ==
    \A x \in non_working \cup {args.d} : x - 7 >= MinOrdinal

\* C10: the shift returns, from every start date and for every finite
\* non-working set and coverage set, when the date range extends far enough
\* back.
C10_ShiftTerminates == FarEnoughBack ~> (pc = "returned")

\* a shift that returned after walking back five days or more through a
\* year without coverage
C10_Witness ==
    /\ pc = "returned"
    /\ FarEnoughBack
    /\ args.d - d >= 5
    /\ covered_years = {}

(***************************************************************************)
(* Properties of the generator (SpecGen).                                  *)
(***************************************************************************)
Uids(evs) == [i \in DOMAIN evs |-> evs[i].uid]

\* C3: the identifiers of the events generated for a year and a rule list are
\* the same sequence whatever the non-working set and the coverage set, and
\* so whatever dates the events are shifted to.
C3_UidsIgnoreShift ==
    pc = "regenerated" => Uids(prev) = Uids(events)

\* two runs that place an event on different dates, one of them in December
\* of the year before
C3_Witness ==
    /\ pc = "regenerated"
    /\ \E i \in DOMAIN events :
         /\ prev[i].dtstart # events[i].dtstart
         /\ YearOf(events[i].dtstart) < year
         /\ prev[i].uid = events[i].uid

\* the length of month m of year y, for the years 1901..2099, where the leap
\* years are the multiples of four
MonthLength(y, m) ==
    CASE m \in {1, 3, 5, 7, 8, 10, 12} -> 31
      [] m \in {4, 6, 9, 11} -> 30
      [] OTHER -> IF y % 4 = 0 THEN 29 ELSE 28

\* every (month, rule) pair, in month order, then rule-list order
AllPairs ==
    [k \in 1..(12 * Len(rules)) |->
        [month |-> ((k - 1) \div Len(rules)) + 1,
         rule  |-> rules[((k - 1) % Len(rules)) + 1]]]

\* the pairs whose day exists in the month
ExistingPairs ==
    SelectSeq(AllPairs, LAMBDA p : p.rule[1] <= MonthLength(year, p.month))

\* C9: the generator produces exactly one event for each (month, rule) pair
\* whose day exists in that month of the year, none for the others, in month
\* order and then rule-list order.
C9_OneEventPerExistingDay ==
    pc \in {"generated", "regenerated"} =>
        /\ Len(events) = Len(ExistingPairs)
        /\ \A i \in DOMAIN events :
             LET p == ExistingPairs[i]
             IN  /\ events[i].summary = p.rule[2]
                 /\ events[i].uid =
                        Uid(year, p.month, p.rule[1], 0, p.rule[2])
                 /\ events[i].dtstart <= MkDate(year, p.month, p.rule[1])

\* rules for day 30 and day 31 in a run that is done: eleven months have a
\* day 30 and seven a day 31, and the other pairs left no event
C9_Witness ==
    /\ pc = "generated"
    /\ Len(rules) = 2
    /\ rules[1][1] = 30
    /\ rules[2][1] = 31
    /\ Len(events) = 18
    /\ Len(events) < Len(AllPairs)

(***************************************************************************)
(* Properties of main (Spec).                                              *)
(***************************************************************************)
InRange == args.start_year..args.end_year

\* the events of intended year y: the UID carries the year after the prefix
EventsOfYear(y) ==
    SelectSeq(events, LAMBDA e :
        SubSeq(e.uid, Len(UidPrefix) + 1, Len(UidPrefix) + 4) = ToDecimal(y))

Unavailable(y) ==
    \E i \in DOMAIN requested :
        requested[i].year = y /\ requested[i].outcome = "unavailable"

\* C4: within one run no two generated events have the same identifier.
C4_UidsUnique ==
    pc = "done" =>
        \A i, j \in DOMAIN events :
            i # j => events[i].uid # events[j].uid

\* C6, as stated: when an in-range year was reported unavailable, the run
\* still holds that year's events, dated by the fallback predicate.
C6_MissingYearStillGenerated ==
    pc = "done" =>
        \A y \in InRange :
            Unavailable(y) =>
                EventsOfYear(y) =
                    generate_salary_events(y, non_working, covered_years, rules)

\* C6, amended: the run holds the events of exactly the in-range years of
\* the coverage set; a year reported unavailable, and every year after it,
\* has no event.
C6_OnlyCoveredYearsGenerated ==
    pc = "done" =>
        \A y \in InRange :
            /\ EventsOfYear(y) =
                  IF y \in covered_years
                  THEN generate_salary_events(y, non_working, covered_years,
                                              rules)
                  ELSE <<>>
            /\ Unavailable(y) =>
                  \A z \in InRange : z >= y => EventsOfYear(z) = <<>>

\* a finished run with events for its first year and none for its second,
\* which was reported unavailable
C6_Witness ==
    /\ pc = "done"
    /\ args.start_year + 1 \in InRange
    /\ Unavailable(args.start_year + 1)
    /\ EventsOfYear(args.start_year) # <<>>
    /\ EventsOfYear(args.start_year + 1) = <<>>

\* C7: years are requested in ascending order from start_year-1; after a
\* year is reported unavailable none is requested; when the fetch loop has
\* ended the coverage set is exactly the years whose fetch returned data, a
\* prefix of start_year-1 .. end_year, and no non-working date lies in a year
\* outside it.
C7_FetchStopsAtUnavailable ==
    /\ \A i \in DOMAIN requested :
         /\ requested[i].year = args.start_year - 2 + i
         /\ requested[i].year <= args.end_year
         /\ i < Len(requested) => requested[i].outcome = "data"
    /\ pc \in {"generate", "done"} =>
         /\ covered_years =
                { requested[i].year : i \in
                    { j \in DOMAIN requested : requested[j].outcome = "data" } }
         /\ \E n \in 0..Len(requested) :
                covered_years =
                    (args.start_year - 1)..(args.start_year - 2 + n)
         /\ \A x \in non_working : YearOf(x) \in covered_years

\* the fetch loop ended on an unavailable year before end_year, with
\* non-working dates from the year before it
C7_Witness ==
    /\ pc = "generate"
    /\ Len(requested) = 2
    /\ requested[2].outcome = "unavailable"
    /\ requested[2].year < args.end_year
    /\ non_working # {}

====
